---- MODULE Spec2Model ----
(***************************************************************************)
(* Model of the two pieces of backend/ that carry design content:          *)
(*   - the call wrapper `handle` of backend/utils.py                       *)
(*     (process_time o handle_errors o retry), and                         *)
(*   - the run poller `run_events.generator` of backend/routes/agents.py.  *)
(***************************************************************************)
EXTENDS Integers, Sequences, FiniteSets, TLC

VARIABLES
    \* ---- wrapper (utils.py) ----
    hpc,        \* position of one wrapped call: "call", "backoff", "raised", "returned", "done"
    attempts,   \* number of times the wrapped operation was invoked
    waits,      \* the backoff waits slept so far, in order
    lastExc,    \* the exception raised by the latest attempt
    firstType,  \* type of the exception raised by the first attempt
    same,       \* every attempt so far raised an exception of type firstType
    raised,     \* the exception that left the retry layer
    out,        \* what the caller of the wrapped call receives
    func,       \* which coroutine is wrapped: "func" (any coroutine) or "use_chat"
    reply,      \* what the latest attempt produced before the wrapper saw it
    \* ---- poller (routes/agents.py) ----
    ppc,        \* position of the generator
    runner,     \* local variable `runner`
    run,        \* local variable `run` (result of submit_tool_outputs)
    steps,      \* local variable `response` (listed steps) still to be yielded
    perr,       \* exception that ended the stream, if any
    tries,      \* attempts made of the remote call issued last
    events,     \* the first MaxEvents events yielded to the transport
    responses,  \* the first MaxResp responses the remote service returned to the poller
    iter,       \* the current loop iteration: status it saw, calls it issued, events it yielded
    \* ---- remote service ----
    rstat,      \* status of the run on the remote service
    rsteps,     \* number of run steps the remote service has recorded
    rhist,      \* the first MaxHist statuses the run went through
    \* ---- nested wrapped calls (functions.py) ----
    nlevel,     \* the wrapped function control is in: 3 use_function, 2 __call__, 1 use_instruction
    npc,        \* position in that function's wrapper: "body", "backoff", "raised", "done"
    natt,       \* per function, the number of times its body was run
    nexc,       \* the exception on its way out of the current function
    nout,       \* what the caller of the outermost function receives
    ncalls,     \* number of times the remote operation of the innermost function was attempted
    \* ---- use_image (functions.py) ----
    ipc,        \* "call" before the body ran on the provider's response, "done" after
    items,      \* response.data: the image items the provider returned
    imgOut      \* what the body of use_image ended with

hvars == <<hpc, attempts, waits, lastExc, firstType, same, raised, out>>
fvars == <<func, reply>>
pvars == <<ppc, runner, run, steps, perr, tries, events, responses, iter>>
rvars == <<rstat, rsteps, rhist>>
nvars == <<nlevel, npc, natt, nexc, nout, ncalls>>
ivars == <<ipc, items, imgOut>>
xvars == <<nvars, ivars>>
vars == <<hvars, fvars, pvars, rvars, xvars>>

----------------------------------------------------------------------------
(* Exception classes                                                        *)

Msgs == {"m1", "m2"}

\* The classes imported by utils.py and their direct base class.
Parent ==
    [c \in {"Exception", "OSError", "asyncio.TimeoutError", "TimeoutError",
            "ConnectionError", "ConnectionRefusedError", "ConnectionResetError",
            "ValueError", "HTTPException", "OpenAIError", "APIError",
            "APIConnectionError", "APITimeoutError", "APIResponseValidationError",
            "APIStatusError", "RateLimitError", "AuthenticationError",
            "BadRequestError", "ConflictError", "NotFoundError",
            "PermissionDeniedError", "UnprocessableEntityError",
            "InternalServerError"} |->
        CASE c = "Exception" -> "BaseException"
          [] c = "OSError" -> "Exception"
          [] c = "asyncio.TimeoutError" -> "Exception"
          [] c = "TimeoutError" -> "OSError"
          [] c = "ConnectionError" -> "OSError"
          [] c = "ConnectionRefusedError" -> "ConnectionError"
          [] c = "ConnectionResetError" -> "ConnectionError"
          [] c = "ValueError" -> "Exception"
          [] c = "HTTPException" -> "Exception"
          [] c = "OpenAIError" -> "Exception"
          [] c = "APIError" -> "OpenAIError"
          [] c = "APIConnectionError" -> "APIError"
          [] c = "APITimeoutError" -> "APIConnectionError"
          [] c = "APIResponseValidationError" -> "APIError"
          [] c = "APIStatusError" -> "APIError"
          [] OTHER -> "APIStatusError"]

RECURSIVE IsSubclass(_, _)
IsSubclass(c, d) ==
    \/ c = d
    \/ c \in DOMAIN Parent /\ IsSubclass(Parent[c], d)

\* isinstance(exc, (t1, t2, ...))
IsInstance(e, tuple) == \E d \in tuple : IsSubclass(e.type, d)

ERRORS ==
    {"asyncio.TimeoutError", "ConnectionError", "ConnectionRefusedError",
     "ConnectionResetError", "TimeoutError", "ValueError", "Exception"}

OPEN_AI_HTTP_EXCEPTIONS ==
    {"APIResponseValidationError", "APIStatusError", "RateLimitError",
     "AuthenticationError", "BadRequestError", "ConflictError", "NotFoundError",
     "PermissionDeniedError", "UnprocessableEntityError"}

OPEN_AI_ERRORS == {"APIConnectionError", "APIError", "APITimeoutError", "OpenAIError"}

RETRY_EXCEPTIONS ==
    {"asyncio.TimeoutError", "ConnectionError", "ConnectionRefusedError",
     "ConnectionResetError", "TimeoutError", "APIConnectionError", "APITimeoutError",
     "APIError"}

\* Status code the provider reports with each status-error class.
StatusCodes(t) ==
    CASE t = "BadRequestError" -> {400}
      [] t = "AuthenticationError" -> {401}
      [] t = "PermissionDeniedError" -> {403}
      [] t = "NotFoundError" -> {404}
      [] t = "ConflictError" -> {409}
      [] t = "UnprocessableEntityError" -> {422}
      [] t = "RateLimitError" -> {429}
      [] t = "InternalServerError" -> {500, 503}
      [] t = "HTTPException" -> {404}
      [] OTHER -> {0}

\* The provider-request-error classes of the error taxonomy.
RequestErrors ==
    {"BadRequestError", "AuthenticationError", "NotFoundError", "ConflictError",
     "PermissionDeniedError", "UnprocessableEntityError"}

\* The exception classes an operation is made to raise.
RaisedTypes ==
    {"asyncio.TimeoutError", "TimeoutError", "ConnectionError",
     "ConnectionRefusedError", "ConnectionResetError", "ValueError",
     "HTTPException", "OpenAIError", "APIError", "APIConnectionError",
     "APITimeoutError", "RateLimitError", "InternalServerError"} \cup RequestErrors

Exc(t, s, m) == [type |-> t, status |-> s, msg |-> m]

NoExc == Exc("none", 0, "")

Exceptions == {Exc(t, s, m) : t \in RaisedTypes, s \in {0, 400, 401, 403, 404, 409, 422, 429, 500, 503}, m \in Msgs}

Raisable == {e \in Exceptions : e.status \in StatusCodes(e.type)}

\* str(exc): the message the exception was built with.
Str(e) == e.msg

----------------------------------------------------------------------------
(* retry(): tenacity stop_after_attempt / wait_exponential / reraise        *)

retries == 10
wait == 1
max_wait == 10
HTTP_500_INTERNAL_SERVER_ERROR == 500

Min(a, b) == IF a <= b THEN a ELSE b
Max(a, b) == IF a >= b THEN a ELSE b

\* wait_exponential(multiplier=wait, max=max_wait) after attempt number n
wait_exponential(n) == Max(0, Min(wait * 2 ^ (n - 1), max_wait))

\* stop_after_attempt(retries)
stop_after_attempt_OffByOne(n) == n >= retries - 1

stop_after_attempt(n) == n >= retries

\* tenacity's default predicate: every exception is retried.
retry_if_exception_type_Everything(e) == TRUE

\* retry_if_exception_type(RETRY_EXCEPTIONS)
retry_if_exception_type(e) == IsInstance(e, RETRY_EXCEPTIONS)

\* reraise=True: the last attempt's exception leaves the retry layer as it is.
reraise(e) == e

----------------------------------------------------------------------------
(* handle_errors: the except clauses, in order                              *)

Http(s, d) == [kind |-> "http", type |-> "HTTPException", status |-> s, detail |-> d]
Raw(e) == [kind |-> "raw", type |-> e.type, status |-> e.status, detail |-> e.msg]
Ok_DropsValue(v) == [kind |-> "ok", type |-> "", status |-> 0, detail |-> ""]

Ok(v) == [kind |-> "ok", type |-> "", status |-> 0, detail |-> v]
NoOut == [kind |-> "none", type |-> "", status |-> 0, detail |-> ""]

\* handle_errors without its first clause: an HTTPException falls to the last one.
handle_errors_NoPassthrough(e) ==
    IF IsInstance(e, OPEN_AI_HTTP_EXCEPTIONS) THEN Http(e.status, e.msg)
    ELSE Http(HTTP_500_INTERNAL_SERVER_ERROR, Str(e))

handle_errors_Always500(e) == Http(HTTP_500_INTERNAL_SERVER_ERROR, Str(e))

handle_errors_NoCatchAll(e) ==
    IF IsInstance(e, {"HTTPException"}) THEN Http(e.status, e.msg)
    ELSE IF IsInstance(e, OPEN_AI_HTTP_EXCEPTIONS) THEN Http(e.status, e.msg)
    ELSE Raw(e)

handle_errors(e) ==
    IF IsInstance(e, {"HTTPException"}) THEN Http(e.status, e.msg)
    ELSE IF IsInstance(e, OPEN_AI_HTTP_EXCEPTIONS) THEN Http(e.status, e.msg)
    ELSE IF IsInstance(e, OPEN_AI_ERRORS) THEN Http(HTTP_500_INTERNAL_SERVER_ERROR, Str(e))
    ELSE IF IsInstance(e, ERRORS) THEN Http(HTTP_500_INTERNAL_SERVER_ERROR, Str(e))
    ELSE Raw(e)

----------------------------------------------------------------------------
(* One call through handle(func)                                            *)

InitHandle ==
    /\ hpc = "call"
    /\ attempts = 0
    /\ waits = <<>>
    /\ lastExc = NoExc
    /\ firstType = "none"
    /\ same = TRUE
    /\ raised = NoExc
    /\ out = NoOut

\* The wrapped coroutine returns a value: nothing is retried.
OpReturns(v) ==
    /\ hpc = "call"
    /\ attempts' = attempts + 1
    /\ hpc' = "returned"
    /\ out' = Ok(v)
    /\ UNCHANGED <<waits, lastExc, firstType, same, raised>>

\* The wrapped coroutine raises e: tenacity retries it after a wait, or lets it out.
OpRaises(e) ==
    /\ hpc = "call"
    /\ attempts' = attempts + 1
    /\ lastExc' = e
    /\ firstType' = IF attempts = 0 THEN e.type ELSE firstType
    /\ same' = (same /\ (attempts = 0 \/ e.type = firstType))
    /\ IF retry_if_exception_type(e)
       THEN IF stop_after_attempt(attempts')
            THEN /\ hpc' = "raised"
                 /\ raised' = reraise(e)
                 /\ UNCHANGED waits
            ELSE /\ hpc' = "backoff"
                 /\ waits' = Append(waits, wait_exponential(attempts'))
                 /\ UNCHANGED raised
       ELSE /\ hpc' = "raised"
            /\ raised' = e
            /\ UNCHANGED waits
    /\ UNCHANGED out

\* The backoff sleep ends and the operation is attempted again.
Backoff ==
    /\ hpc = "backoff"
    /\ hpc' = "call"
    /\ UNCHANGED <<attempts, waits, lastExc, firstType, same, raised, out>>

\* handle_errors catches what left the retry layer and raises its HTTP form.
HandleRaised ==
    /\ hpc = "raised"
    /\ out' = handle_errors(raised)
    /\ hpc' = "done"
    /\ UNCHANGED <<attempts, waits, lastExc, firstType, same, raised>>

\* handle_errors and process_time hand the value back.
HandleReturned ==
    /\ hpc = "returned"
    /\ hpc' = "done"
    /\ UNCHANGED <<attempts, waits, lastExc, firstType, same, raised, out>>

----------------------------------------------------------------------------
(* use_chat (functions.py): the body that handle wraps                      *)

\* Values a coroutine returns.
Results == {"r1", "r2"}

\* message.content of the provider's reply: a text, or None.
NoneValue == "<None>"
NoReply == "<raised>"
Contents == {"hello", NoneValue}

\* isinstance(x, str)
IsStr(x) == x # NoneValue

ExpectedText == "Expected text output to be a string"

Return(v) == [kind |-> "return", value |-> v, exc |-> NoExc]
Raise(e) == [kind |-> "raise", value |-> "", exc |-> e]

\* use_chat without its isinstance check.
use_chat_Unchecked(content) == Return(content)

\* use_chat after the provider replied with `content`
use_chat(content) ==
    IF ~IsStr(content)
    THEN Raise(Exc("ValueError", 0, ExpectedText))
    ELSE Return(content)

\* One attempt of use_chat in which the provider replies.
ChatReplies(c) ==
    /\ func = "use_chat"
    /\ reply' = c
    /\ IF use_chat(c).kind = "return"
       THEN OpReturns(use_chat(c).value)
       ELSE OpRaises(use_chat(c).exc)
    /\ UNCHANGED func

NextHandle ==
    \/ \E v \in Results :
          func = "func" /\ OpReturns(v) /\ reply' = v /\ UNCHANGED <<func, pvars, rvars, xvars>>
    \/ \E e \in Raisable :
          OpRaises(e) /\ reply' = NoReply /\ UNCHANGED <<func, pvars, rvars, xvars>>
    \/ \E c \in Contents : ChatReplies(c) /\ UNCHANGED <<pvars, rvars, xvars>>
    \/ Backoff /\ UNCHANGED <<fvars, pvars, rvars, xvars>>
    \/ HandleRaised /\ UNCHANGED <<fvars, pvars, rvars, xvars>>
    \/ HandleReturned /\ UNCHANGED <<fvars, pvars, rvars, xvars>>

----------------------------------------------------------------------------
(* The remote service: one run and its steps                                *)

MaxSteps == 2
MaxEvents == 3
MaxResp == 3
MaxHist == 3

Terminal == {"completed", "failed", "cancelled", "expired"}
Known == {"queued", "in_progress", "requires_action", "cancelling"} \cup Terminal
\* A status value outside the ones the generator names.
Statuses == Known \cup {"unrecognized"}

\* The provider's run lifecycle: the statuses that can follow s on their own.
Successors(s) ==
    CASE s = "queued" -> {"in_progress", "cancelling", "unrecognized"}
      [] s = "in_progress" -> {"requires_action", "completed", "failed", "cancelling", "expired"}
      [] s = "requires_action" -> {"cancelling", "expired"}
      [] s = "cancelling" -> {"cancelled"}
      [] s = "unrecognized" -> {"in_progress", "failed"}
      [] OTHER -> {}

Remember(h, s) == IF Len(h) < MaxHist THEN Append(h, s) ELSE h

InitRemote ==
    /\ rstat \in Statuses
    /\ rsteps \in (IF rstat = "queued" THEN {0} ELSE 0..1)
    /\ rhist = <<rstat>>

RemoteAdvance ==
    /\ \E s \in Successors(rstat) :
          /\ rstat' = s
          /\ rhist' = Remember(rhist, s)
    /\ UNCHANGED rsteps

RemoteStep ==
    /\ rstat = "in_progress"
    /\ rsteps < MaxSteps
    /\ rsteps' = rsteps + 1
    /\ UNCHANGED <<rstat, rhist>>

----------------------------------------------------------------------------
(* run_events.generator                                                     *)

Snap(s, r) == [kind |-> "run", status |-> s, idx |-> 0, resp |-> r]
Step(i, r) == [kind |-> "step", status |-> "", idx |-> i, resp |-> r]
NoSnap == Snap("none", 0)

\* Identity of the next response: its place in the order of responses.
NextId == Min(Len(responses) + 1, MaxResp + 1)
Log(r) == IF Len(responses) < MaxResp THEN Append(responses, r) ELSE responses
Resp(c, s, n) == [call |-> c, status |-> s, nsteps |-> n]

\* yield: the event goes to the transport
Emit(ev) == IF Len(events) < MaxEvents THEN Append(events, ev) ELSE events

\* Bookkeeping of one pass through the loop body.
Iteration(s) == [obs |-> s, calls |-> <<>>, emitted |-> <<>>]
Called(c) == [iter EXCEPT !.calls = Append(@, [call |-> c, id |-> NextId])]
Yielded(ev) == [iter EXCEPT !.emitted = Append(@, ev)]

\* The steps of one list response, in the order the response holds them.
ListedSteps_Reversed(n, r) == [i \in 1..n |-> Step(n + 1 - i, r)]

ListedSteps(n, r) == [i \in 1..n |-> Step(i, r)]

\* What line 169 yields after a submit.
SubmitEvent_Runner == runner

SubmitEvent == run

InitPoll ==
    /\ ppc = "retrieve"
    /\ runner = NoSnap
    /\ run = NoSnap
    /\ steps = <<>>
    /\ perr = NoExc
    /\ tries = 0
    /\ events = <<>>
    /\ responses = <<>>
    /\ iter = Iteration("none")

\* The exceptions a remote call may end with for reasons of transport.
TransportErrors == {Exc(t, 0, "m1") : t \in {"APIConnectionError", "APITimeoutError"}}

\* while runner.status not in ("completed", "failed", "cancelled", "expired")
WhileCond(s) == s \notin {"completed", "failed", "cancelled", "expired"}

\* The if-chain of the loop body: where the generator goes for status s.
Branch(s) ==
    IF s = "requires_action" THEN "submit"
    ELSE IF s = "cancelling" THEN "list"
    ELSE IF s = "queued" THEN "yield_runner"
    ELSE IF s = "in_progress" THEN "list"
    ELSE IF s = "completed" THEN "list"
    ELSE IF s \in {"failed", "cancelled", "expired"} THEN "yield_final"
    ELSE "fallback_sleep"

\* retrieve_run(thread_id, run_id): line 160 and line 204
retrieve_run ==
    /\ ppc \in {"retrieve", "fallback_retrieve"}
    /\ runner' = Snap(rstat, NextId)
    /\ responses' = Log(Resp("retrieve", rstat, rsteps))
    /\ tries' = 1
    /\ ppc' = IF ppc = "retrieve" THEN "while" ELSE "fallback_yield"
    /\ iter' = Called("retrieve")
    /\ UNCHANGED <<run, steps, perr, events, rvars>>

\* The loop test and the dispatch on runner.status
WhileTest ==
    /\ ppc = "while"
    /\ ppc' = IF WhileCond(runner.status) THEN Branch(runner.status) ELSE "closed"
    /\ iter' = IF WhileCond(runner.status) THEN Iteration(runner.status) ELSE iter
    /\ UNCHANGED <<runner, run, steps, perr, tries, events, responses, rvars>>

\* threads.runs.submit_tool_outputs on a run that awaits them
submit_tool_outputs ==
    /\ ppc = "submit"
    /\ rstat = "requires_action"
    /\ rstat' = "queued"
    /\ rhist' = Remember(rhist, "queued")
    /\ run' = Snap("queued", NextId)
    /\ responses' = Log(Resp("submit", "queued", rsteps))
    /\ tries' = 1
    /\ ppc' = "yield_run"
    /\ iter' = Called("submit")
    /\ UNCHANGED <<runner, steps, perr, events, rsteps>>

\* threads.runs.submit_tool_outputs refused by the provider with status 400, as it is
\* for a run that awaits no tool outputs (the provider may also refuse the payload)
SubmitRefused ==
    /\ ppc = "submit"
    /\ perr' = Exc("BadRequestError", 400, "m1")
    /\ tries' = 1
    /\ ppc' = "aborted"
    /\ UNCHANGED <<runner, run, steps, events, responses, iter, rvars>>

\* yield f"data: {run.json()}\n\n"
YieldRun ==
    /\ ppc = "yield_run"
    /\ events' = Emit(SubmitEvent)
    /\ iter' = Yielded(SubmitEvent)
    /\ ppc' = "sleep_half"
    /\ UNCHANGED <<runner, run, steps, perr, tries, responses, rvars>>

\* threads.runs.steps.list(thread_id, run_id=runner.id)
ListSteps ==
    /\ ppc = "list"
    /\ steps' = ListedSteps(rsteps, NextId)
    /\ responses' = Log(Resp("list", rstat, rsteps))
    /\ tries' = 1
    /\ ppc' = "yield_steps"
    /\ iter' = Called("list")
    /\ UNCHANGED <<runner, run, perr, events, rvars>>

\* async for step in response: yield f"data: {step.json()}\n\n"
YieldStep ==
    /\ ppc = "yield_steps"
    /\ IF steps # <<>>
       THEN /\ events' = Emit(Head(steps))
            /\ iter' = Yielded(Head(steps))
            /\ steps' = Tail(steps)
            /\ ppc' = "yield_steps"
       ELSE /\ ppc' = "sleep_half"
            /\ UNCHANGED <<events, steps, iter>>
    /\ UNCHANGED <<runner, run, perr, tries, responses, rvars>>

\* The fallback yielding the fetched snapshot a second time.
YieldRunner_Twice ==
    /\ ppc \in {"yield_runner", "yield_final", "fallback_yield"}
    /\ events' = Emit(runner)
    /\ iter' = Yielded(runner)
    /\ ppc' = CASE ppc = "yield_runner" -> "sleep_one"
                [] ppc = "yield_final" -> "closed"
                [] OTHER -> IF iter.emitted = <<>> THEN "fallback_yield" ELSE "fallback_sleep2"
    /\ UNCHANGED <<runner, run, steps, perr, tries, responses, rvars>>

\* yield f"data: {runner.json()}\n\n" (lines 181, 201 and 205)
YieldRunner ==
    /\ ppc \in {"yield_runner", "yield_final", "fallback_yield"}
    /\ events' = Emit(runner)
    /\ iter' = Yielded(runner)
    /\ ppc' = CASE ppc = "yield_runner" -> "sleep_one"
                [] ppc = "yield_final" -> "closed"
                [] OTHER -> "fallback_sleep2"
    /\ UNCHANGED <<runner, run, steps, perr, tries, responses, rvars>>

\* await asyncio.sleep(...): then `continue`, the fallback's re-fetch, or the loop's end
Sleep ==
    /\ ppc \in {"sleep_half", "sleep_one", "fallback_sleep", "fallback_sleep2"}
    /\ ppc' = IF ppc = "fallback_sleep" THEN "fallback_retrieve" ELSE "while"
    /\ UNCHANGED <<runner, run, steps, perr, tries, events, responses, iter, rvars>>

\* A remote call raises: nothing around it catches, the generator ends with the exception.
RemoteCallFails(e) ==
    /\ ppc \in {"retrieve", "fallback_retrieve", "submit", "list"}
    /\ perr' = e
    /\ tries' = 1
    /\ ppc' = "aborted"
    /\ UNCHANGED <<runner, run, steps, events, responses, iter, rvars>>

\* The steps the generator takes when every remote call answers.
PollerNext ==
    \/ retrieve_run
    \/ WhileTest
    \/ submit_tool_outputs
    \/ SubmitRefused
    \/ YieldRun
    \/ ListSteps
    \/ YieldStep
    \/ YieldRunner
    \/ Sleep

NextPoll ==
    \/ retrieve_run /\ UNCHANGED <<hvars, fvars, xvars>>
    \/ WhileTest /\ UNCHANGED <<hvars, fvars, xvars>>
    \/ submit_tool_outputs /\ UNCHANGED <<hvars, fvars, xvars>>
    \/ SubmitRefused /\ UNCHANGED <<hvars, fvars, xvars>>
    \/ YieldRun /\ UNCHANGED <<hvars, fvars, xvars>>
    \/ ListSteps /\ UNCHANGED <<hvars, fvars, xvars>>
    \/ YieldStep /\ UNCHANGED <<hvars, fvars, xvars>>
    \/ YieldRunner /\ UNCHANGED <<hvars, fvars, xvars>>
    \/ Sleep /\ UNCHANGED <<hvars, fvars, xvars>>
    \/ \E e \in TransportErrors : RemoteCallFails(e) /\ UNCHANGED <<hvars, fvars, xvars>>
    \/ RemoteAdvance /\ UNCHANGED <<hvars, fvars, pvars, xvars>>
    \/ RemoteStep /\ UNCHANGED <<hvars, fvars, pvars, xvars>>

----------------------------------------------------------------------------
(* Wrapped functions calling wrapped functions (functions.py)               *)
(* use_function -> OpenAIFunction.__call__ -> UseInstruction.run ->         *)
(* use_instruction -> ai.completions.create, each of the three under handle *)

Depth == 3

\* A retry layer that retries whatever is raised, the HTTP form included.
RetryVerdict_AnyException(e, n) ==
    IF ~stop_after_attempt(n) THEN "backoff" ELSE "raised"

\* What tenacity does with exception e after attempt number n of a function.
RetryVerdict(e, n) ==
    IF retry_if_exception_type(e) /\ ~stop_after_attempt(n) THEN "backoff" ELSE "raised"

\* The exception object a caller sees for what handle_errors raised.
AsExc(h) ==
    IF h.kind = "http" THEN Exc("HTTPException", h.status, h.detail)
    ELSE Exc(h.type, h.status, h.detail)

InitNested ==
    /\ nlevel = Depth
    /\ npc = "body"
    /\ natt = [l \in 1..Depth |-> 0]
    /\ nexc = NoExc
    /\ nout = NoOut
    /\ ncalls = 0

\* The body of use_function or __call__ runs and awaits the wrapped function below it.
NestedCall ==
    /\ npc = "body"
    /\ nlevel > 1
    /\ natt' = [natt EXCEPT ![nlevel] = @ + 1]
    /\ nlevel' = nlevel - 1
    /\ UNCHANGED <<npc, nexc, nout, ncalls>>

\* The body of use_instruction runs and ai.completions.create raises e.
RemoteRaises(e) ==
    /\ npc = "body"
    /\ nlevel = 1
    /\ natt' = [natt EXCEPT ![1] = @ + 1]
    /\ ncalls' = ncalls + 1
    /\ nexc' = e
    /\ npc' = RetryVerdict(e, natt'[1])
    /\ UNCHANGED <<nlevel, nout>>

\* ai.completions.create answers: the text goes up through every function.
RemoteReturns(v) ==
    /\ npc = "body"
    /\ nlevel = 1
    /\ natt' = [natt EXCEPT ![1] = @ + 1]
    /\ ncalls' = ncalls + 1
    /\ nout' = Ok(v)
    /\ npc' = "done"
    /\ nlevel' = Depth
    /\ UNCHANGED nexc

\* The wait of the current function's retry layer ends: its body runs again.
NestedBackoff ==
    /\ npc = "backoff"
    /\ npc' = "body"
    /\ UNCHANGED <<nlevel, natt, nexc, nout, ncalls>>

\* handle_errors of the current function raises the HTTP form; the body of the
\* function above does not catch it, so that function's retry layer judges it.
NestedHandle ==
    /\ npc = "raised"
    /\ IF nlevel = Depth
       THEN /\ nout' = handle_errors(nexc)
            /\ npc' = "done"
            /\ UNCHANGED <<nlevel, nexc>>
       ELSE /\ nexc' = AsExc(handle_errors(nexc))
            /\ nlevel' = nlevel + 1
            /\ npc' = RetryVerdict(nexc', natt[nlevel + 1])
            /\ UNCHANGED nout
    /\ UNCHANGED <<natt, ncalls>>

NextNested ==
    \/ NestedCall /\ UNCHANGED <<hvars, fvars, pvars, rvars, ivars>>
    \/ \E e \in Raisable : RemoteRaises(e) /\ UNCHANGED <<hvars, fvars, pvars, rvars, ivars>>
    \/ \E v \in Results : RemoteReturns(v) /\ UNCHANGED <<hvars, fvars, pvars, rvars, ivars>>
    \/ NestedBackoff /\ UNCHANGED <<hvars, fvars, pvars, rvars, ivars>>
    \/ NestedHandle /\ UNCHANGED <<hvars, fvars, pvars, rvars, ivars>>

----------------------------------------------------------------------------
(* use_image (functions.py): the loop over response.data                    *)

MaxItems == 3

\* An image item: url and b64_json, each a string or None.
Items == [url : {"u", NoneValue}, b64_json : {"b", NoneValue}]

RECURSIVE SeqsUpTo(_, _)
SeqsUpTo(S, n) ==
    IF n = 0 THEN {<<>>}
    ELSE SeqsUpTo(S, n - 1) \cup {Append(q, x) : q \in {t \in SeqsUpTo(S, n - 1) : Len(t) = n - 1}, x \in S}

ExpectedImage == "Expected image output to be a string"

Returned(l) == [kind |-> "return", list |-> l, exc |-> NoExc]
Thrown(e) == [kind |-> "raise", list |-> <<>>, exc |-> e]
NoResult == [kind |-> "none", list |-> <<>>, exc |-> NoExc]

\* for i in response.data: ... with model_result so far
RECURSIVE ImageLoop(_, _)
ImageLoop(data, model_result) ==
    IF data = <<>> THEN Returned(model_result)
    ELSE LET i == Head(data)
             withUrl == IF i.url # NoneValue THEN Append(model_result, i.url) ELSE model_result
         IN  IF i.b64_json # NoneValue
             THEN ImageLoop(Tail(data), Append(withUrl, i.b64_json))
             ELSE Thrown(Exc("ValueError", 0, ExpectedImage))

\* use_image after ai.images.generate returned `data`
use_image(data) == ImageLoop(data, <<>>)

InitImage ==
    /\ ipc = "call"
    /\ items \in SeqsUpTo(Items, MaxItems)
    /\ imgOut = NoResult

NoImage ==
    /\ ipc = "call"
    /\ items = <<>>
    /\ imgOut = NoResult

\* The body of use_image runs on the provider's response.
ImageGenerated ==
    /\ ipc = "call"
    /\ imgOut' = use_image(items)
    /\ ipc' = "done"
    /\ UNCHANGED items

NextImage == ImageGenerated /\ UNCHANGED <<hvars, fvars, pvars, rvars, nvars>>

----------------------------------------------------------------------------
InitQuiet ==
    /\ InitHandle /\ func = "func" /\ reply = NoReply
    /\ InitPoll
    /\ rstat = "queued" /\ rsteps = 0 /\ rhist = <<"queued">>
    /\ InitNested
    /\ NoImage

Init ==
    /\ InitHandle /\ func = "func" /\ reply = NoReply
    /\ InitPoll
    /\ InitRemote
    /\ InitNested
    /\ NoImage

\* One wrapped call, from invocation to what its caller receives (no stream is polled).
InitCall ==
    /\ InitHandle
    /\ func \in {"func", "use_chat"}
    /\ reply = NoReply
    /\ InitPoll
    /\ rstat = "queued" /\ rsteps = 0 /\ rhist = <<"queued">>
    /\ InitNested
    /\ NoImage

SpecHandle == InitCall /\ [][NextHandle]_vars

\* One poll stream against a run that moves on its own.
SpecPoll == Init /\ [][NextPoll]_vars

\* The event loop keeps running the generator while it has a step to take.
FairPoll == SpecPoll /\ WF_vars(PollerNext /\ UNCHANGED <<hvars, fvars, xvars>>)

\* One call of use_function that is answered with a function to run.
SpecNested == InitQuiet /\ [][NextNested]_vars

\* One response of ai.images.generate handed to the body of use_image.
InitImages ==
    /\ InitHandle /\ func = "func" /\ reply = NoReply
    /\ InitPoll
    /\ rstat = "queued" /\ rsteps = 0 /\ rhist = <<"queued">>
    /\ InitNested
    /\ InitImage

SpecImage == InitImages /\ [][NextImage]_vars

----------------
(* Properties of the wrapper, checked under SpecHandle                      *)

NonDecreasing(ws) == \A i \in 1..(Len(ws) - 1) : ws[i] <= ws[i + 1]

\* The call ended in an error for its caller.
Failed == hpc = "done" /\ out.kind # "ok"

\* Every attempt raised an exception of one and the same type, a type of the set ts.
AllAttemptsRaised(ts) == attempts >= 1 /\ same /\ firstType = lastExc.type /\ IsInstance(lastExc, ts)

\* C1: an attempt that raised a provider-request-error (bad request, authentication,
\* not-found, conflict, permission denied, unprocessable entity) is never followed
\* by a backoff and a further attempt; when every attempt raised it, there was one attempt.
C1_RequestErrorNotRetried ==
    lastExc.type \in RequestErrors =>
        /\ hpc # "backoff"
        /\ (same /\ firstType = lastExc.type => attempts = 1)

\* C2: when the exception that ends a wrapped call is a provider-request-error, the
\* caller receives an HTTP error with the provider's status code as status and the
\* provider's message as detail.
C2_StatusAndDetail ==
    (Failed /\ lastExc.type \in RequestErrors) =>
        /\ out.kind = "http"
        /\ out.status = lastExc.status
        /\ out.detail = lastExc.msg

C2_Witness ==
    /\ Failed
    /\ lastExc = Exc("AuthenticationError", 401, "m2")
    /\ out = Http(401, "m2")

\* C3 as stated: when every attempt fails with one transient type, there are exactly
\* `retries` attempts, the waits are non-decreasing and at most max_wait, and the
\* caller receives an exception of the type the operation raised last.
C3_SameTypeToCaller ==
    (Failed /\ AllAttemptsRaised(RETRY_EXCEPTIONS)) =>
        /\ attempts = retries
        /\ Len(waits) = retries - 1
        /\ NonDecreasing(waits)
        /\ \A i \in 1..Len(waits) : waits[i] <= max_wait
        /\ out.type = lastExc.type

\* C3 amended: when every attempt fails with one transient type, there are exactly
\* `retries` attempts, the waits are non-decreasing and at most max_wait, the retry
\* layer lets out the last exception unchanged, and handle_errors hands the caller
\* its HTTP form (an HTTPException) instead of the exception itself.
C3_RetriesThenHttp ==
    (Failed /\ AllAttemptsRaised(RETRY_EXCEPTIONS)) =>
        /\ attempts = retries
        /\ Len(waits) = retries - 1
        /\ NonDecreasing(waits)
        /\ \A i \in 1..Len(waits) : waits[i] <= max_wait
        /\ raised = lastExc
        /\ out = handle_errors(lastExc)
        /\ out.type = "HTTPException"

C3_Witness ==
    /\ Failed
    /\ AllAttemptsRaised({"APITimeoutError"})
    /\ attempts = retries
    /\ waits = <<1, 2, 4, 8, 10, 10, 10, 10, 10>>
    /\ out = Http(HTTP_500_INTERNAL_SERVER_ERROR, lastExc.msg)

\* C9: whatever the operation raised, on the first attempt or after the retries ran
\* out, a failure reaches the caller as an HTTPException with a status code and a
\* detail string, never as the provider's or the local exception itself.
C9_HttpShaped ==
    Failed =>
        /\ out.kind = "http"
        /\ out.type = "HTTPException"
        /\ out.status \in 100..599
        /\ out.detail \in Msgs \cup {ExpectedText}

C9_Witness ==
    /\ Failed
    /\ attempts = 1
    /\ lastExc.type = "ValueError"
    /\ out = Http(HTTP_500_INTERNAL_SERVER_ERROR, lastExc.msg)

----------------------------------------------------------------------------
(* Properties of the poller, checked under SpecPoll and FairPoll            *)

Count(seq, x) == Cardinality({i \in DOMAIN seq : seq[i] = x})

\* C4: once the run is in a terminal status on the remote service, the stream
\* eventually ends (it closes, or a failed remote call ends it).
C4_StreamEnds == (rstat \in Terminal) ~> (ppc \in {"closed", "aborted"})

\* C5: for a run that goes queued, in_progress, completed with no steps, first seen
\* queued, the stream consists of the queued snapshot followed by the completed
\* snapshot, nothing repeated, and it has both when it closes.
C5_TwoEvents ==
    (/\ rhist = <<"queued", "in_progress", "completed">>
     /\ rsteps = 0
     /\ responses # <<>>
     /\ responses[1].status = "queued"
     /\ ppc # "aborted") =>
        /\ Len(events) <= 2
        /\ \A i \in DOMAIN events :
              events[i].kind = "run" /\ events[i].status = <<"queued", "completed">>[i]
        /\ (ppc = "closed" => Len(events) = 2)

\* C6: in an iteration that saw requires_action no retrieve is issued, and what the
\* iteration yields is one event: the snapshot the submit call of that iteration
\* returned, whose status is not requires_action.
C6_SubmitThenEmit ==
    iter.obs = "requires_action" =>
        /\ \A i \in DOMAIN iter.calls : iter.calls[i].call # "retrieve"
        /\ iter.emitted # <<>> =>
              /\ Len(iter.emitted) = 1
              /\ Len(iter.calls) = 1
              /\ iter.calls[1].call = "submit"
              /\ iter.emitted[1].kind = "run"
              /\ iter.emitted[1].resp = iter.calls[1].id
              /\ iter.emitted[1].status # "requires_action"
              /\ iter.emitted[1].resp <= Len(responses) =>
                    responses[iter.emitted[1].resp].call = "submit"

C6_Witness ==
    /\ ppc = "sleep_half"
    /\ iter.obs = "requires_action"
    /\ iter.calls = <<[call |-> "submit", id |-> 2]>>
    /\ iter.emitted = <<Snap("queued", 2)>>
    /\ events = <<Snap("queued", 2)>>

\* C7: a stream that closed on a run in status failed, cancelled or expired
\* has emitted the snapshot of that run exactly once.
C7_FinalSnapshotOnce ==
    (/\ ppc = "closed"
     /\ runner.status \in {"failed", "cancelled", "expired"}
     /\ Len(events) < MaxEvents) =>
        Count(events, runner) = 1

\* C8: a transport failure of a remote call of the poller does not end the stream
\* on its first occurrence: the call was attempted again before.
C8_TransientRetried == (ppc = "aborted" /\ perr \in TransportErrors) => tries > 1

\* C10: every event carries what a response to a call of this stream held (a run
\* snapshot from a retrieve or submit, a step from a list), events follow the order
\* of the responses they come from, steps of one response follow its order, and a
\* terminal status is only emitted from a response that held it.
C10_EventsFromResponses ==
    /\ \A i \in DOMAIN events :
          LET e == events[i] IN
          /\ e.resp \in 1..(MaxResp + 1)
          /\ e.resp <= MaxResp =>
                /\ e.resp <= Len(responses)
                /\ e.kind = "run" =>
                      /\ responses[e.resp].call \in {"retrieve", "submit"}
                      /\ responses[e.resp].status = e.status
                /\ e.kind = "step" =>
                      /\ responses[e.resp].call = "list"
                      /\ e.idx \in 1..responses[e.resp].nsteps
          /\ e.resp > MaxResp => Len(responses) = MaxResp
    /\ \A i, j \in DOMAIN events :
          i < j =>
             /\ events[i].resp <= events[j].resp
             /\ (/\ events[i].resp = events[j].resp
                 /\ events[i].resp <= MaxResp
                 /\ events[i].kind = "step") =>
                    events[j].kind = "step" /\ events[i].idx < events[j].idx

C10_Witness ==
    /\ responses = <<Resp("retrieve", "unrecognized", 0), Resp("retrieve", "in_progress", 0),
                     Resp("list", "in_progress", 2)>>
    /\ events = <<Snap("in_progress", 2), Step(1, 3), Step(2, 3)>>

----------------------------------------------------------------------------
(* Further properties of the wrapper, checked under SpecHandle              *)

\* C11: a call that succeeds after k < retries failed attempts hands its caller the
\* value of the successful attempt and no error; the successful attempt is the last
\* one (k waits, k + 1 attempts).
C11_SuccessAfterRetries ==
    (hpc = "done" /\ reply \notin {NoReply, NoneValue}) =>
        /\ out.kind = "ok"
        /\ out.detail = reply
        /\ attempts = Len(waits) + 1
        /\ attempts <= retries

C11_Witness ==
    /\ hpc = "done"
    /\ func = "func"
    /\ lastExc.type = "APITimeoutError"
    /\ attempts = 4
    /\ waits = <<1, 2, 4>>
    /\ reply = "r2"
    /\ out.kind = "ok" /\ out.detail = "r2"

\* C12: use_chat hands back only strings; a reply whose content is not a string is
\* not retried and ends as HTTP 500 with the ValueError's text.
C12_ChatReturnsString ==
    func = "use_chat" =>
        /\ (hpc \in {"returned", "done"} /\ out.kind = "ok") => IsStr(out.detail)
        /\ reply = NoneValue =>
              /\ hpc \in {"raised", "done"}
              /\ lastExc = Exc("ValueError", 0, ExpectedText)
              /\ hpc = "done" => out = Http(HTTP_500_INTERNAL_SERVER_ERROR, ExpectedText)

C12_Witness ==
    /\ func = "use_chat"
    /\ reply = NoneValue
    /\ attempts = 1
    /\ hpc = "done"
    /\ out = Http(HTTP_500_INTERNAL_SERVER_ERROR, ExpectedText)

\* The latest attempt raised an exception outside the transient set that is no
\* provider-request-error.
OtherError ==
    /\ lastExc # NoExc
    /\ ~IsInstance(lastExc, RETRY_EXCEPTIONS)
    /\ lastExc.type \notin RequestErrors

\* C13 as stated: such an exception is not retried (one attempt when nothing else
\* was raised before) and reaches the caller as HTTP 500 with str(exc) as detail.
C13_Other500 ==
    OtherError =>
        /\ hpc \in {"raised", "done"}
        /\ (same /\ firstType = lastExc.type) => attempts = 1
        /\ hpc = "done" => out = Http(HTTP_500_INTERNAL_SERVER_ERROR, Str(lastExc))

\* C13 amended: the same, for every such exception that is not already an HTTPException.
C13_Other500UnlessHttp ==
    (OtherError /\ ~IsInstance(lastExc, {"HTTPException"})) =>
        /\ hpc \in {"raised", "done"}
        /\ (same /\ firstType = lastExc.type) => attempts = 1
        /\ hpc = "done" => out = Http(HTTP_500_INTERNAL_SERVER_ERROR, Str(lastExc))

C13_Witness ==
    /\ hpc = "done"
    /\ func = "func"
    /\ attempts = 1
    /\ lastExc = Exc("OpenAIError", 0, "m1")
    /\ out = Http(HTTP_500_INTERNAL_SERVER_ERROR, "m1")

\* C14: a provider status error with a 5xx status reaches the caller as HTTP 500.
C14_ServiceError500 ==
    (Failed /\ lastExc.type = "InternalServerError") =>
        out.status = HTTP_500_INTERNAL_SERVER_ERROR

\* C17: an HTTPException raised by the wrapped coroutine is not retried and reaches
\* the caller as an HTTPException with the same status code and detail.
C17_HttpPassthrough ==
    lastExc.type = "HTTPException" =>
        /\ hpc \in {"raised", "done"}
        /\ (same /\ firstType = lastExc.type) => attempts = 1
        /\ hpc = "done" => out = Http(lastExc.status, lastExc.msg)

C17_Witness ==
    /\ hpc = "done"
    /\ attempts = 1
    /\ lastExc = Exc("HTTPException", 404, "m2")
    /\ out = Http(404, "m2")

----------------------------------------------------------------------------
(* Further properties of the poller, checked under SpecPoll                 *)

\* C15: when an iteration that saw queued, in_progress or cancelling is over and the
\* loop test comes next, the iteration has retrieved the run again.
C15_RefetchAfterWait ==
    (ppc = "while" /\ iter.obs \in {"queued", "in_progress", "cancelling"}) =>
        \E i \in DOMAIN iter.calls : iter.calls[i].call = "retrieve"

\* C16: when an iteration that submitted tool outputs and yielded the result is over,
\* the state the next loop test reads is the run the submit call returned.
C16_SubmitResultDrivesLoop ==
    (ppc = "while" /\ iter.obs = "requires_action" /\ iter.emitted # <<>>) =>
        runner = run

\* C18: an iteration that saw an unrecognized status issues one call, a retrieve,
\* after its wait, and yields one event, the snapshot that retrieve returned; a
\* stream that closes after it closes on a terminal snapshot it yielded once.
C18_FallbackOneEmission ==
    iter.obs = "unrecognized" =>
        /\ \A i \in DOMAIN iter.calls : iter.calls[i].call = "retrieve"
        /\ Len(iter.calls) <= 1
        /\ Len(iter.emitted) <= 1
        /\ ppc = "fallback_sleep" => (iter.calls = <<>> /\ iter.emitted = <<>>)
        /\ ppc = "fallback_yield" => (Len(iter.calls) = 1 /\ iter.emitted = <<>>)
        /\ ppc \in {"fallback_sleep2", "while", "closed"} =>
              /\ Len(iter.calls) = 1
              /\ iter.emitted = <<runner>>
              /\ runner.resp = iter.calls[1].id
        /\ ppc = "closed" => runner.status \in Terminal

C18_Witness ==
    /\ ppc = "closed"
    /\ iter.obs = "unrecognized"
    /\ iter.calls = <<[call |-> "retrieve", id |-> 2]>>
    /\ runner = Snap("failed", 2)
    /\ events = <<Snap("failed", 2)>>

----------------------------------------------------------------------------
(* Properties of nested wrapped calls, checked under SpecNested             *)

\* C19: when use_function calls __call__, which calls use_instruction, the remote
\* operation of use_instruction is attempted at most `retries` times in total, the
\* bodies of use_function and __call__ run at most once, and what leaves the inner
\* wrapper towards an outer retry layer is an HTTPException, which is not retried.
C19_NestingDoesNotMultiply ==
    /\ ncalls <= retries
    /\ natt[1] = ncalls
    /\ \A l \in 2..Depth : natt[l] <= 1
    /\ nlevel > 1 /\ npc \in {"backoff", "raised"} =>
          /\ nexc.type = "HTTPException"
          /\ npc = "raised"
    /\ npc = "done" /\ nout.kind # "ok" => nout.kind = "http"

C19_Witness ==
    /\ npc = "done"
    /\ ncalls = retries
    /\ natt = <<retries, 1, 1>>
    /\ nexc = Exc("HTTPException", 500, "m1")
    /\ nout = Http(500, "m1")

----------------------------------------------------------------------------
(* Properties of use_image, checked under SpecImage                         *)

HasPayload(i) == i.url # NoneValue \/ i.b64_json # NoneValue

\* C20: once use_image has run, if every item of the response carries a url or a
\* b64_json the result is a list with one string per item, and the call ends in an
\* error only if some item carries neither.
C20_OneStringPerItem ==
    ipc = "done" =>
        /\ (\A k \in DOMAIN items : HasPayload(items[k])) =>
              /\ imgOut.kind = "return"
              /\ Len(imgOut.list) = Len(items)
        /\ imgOut.kind = "raise" => \E k \in DOMAIN items : ~HasPayload(items[k])

====
